---------------------------- MODULE Spec2Model ----------------------------
(***************************************************************************)
(* Model of calculate_investment_projection, the Monte Carlo projection    *)
(* engine of investment_projection_app.py.                                 *)
(*                                                                         *)
(* Numbers.  The program computes in binary floating point; the model      *)
(* computes in integers:                                                   *)
(*   - rates (mean_return, volatility, the monthly parameters, one draw)   *)
(*     are in thousandths, so the literal 1 of "1 + rate" is One;          *)
(*   - amounts are integers, a product amount*(1 + rate) is rounded down   *)
(*     to an integer amount;                                               *)
(*   - the three percentile columns of the result are in hundredths of an  *)
(*     amount, which keeps the linear interpolation exact;                 *)
(*   - Year is the exact quotient month/MonthsPerYear, kept as a fraction  *)
(*     <<numerator, denominator>> in lowest terms.                         *)
(* The 1000 trajectories and the 12 months of a year are scaled down to    *)
(* num_simulations and MonthsPerYear.                                      *)
(***************************************************************************)
EXTENDS Integers, Sequences, FiniteSets, TLC

\* ------------------------------------------------------------------ bounds
\* number of simulated trajectories (1000 in the program)
num_simulations == 3
\* months in one year of the horizon (12 in the program)
MonthsPerYear == 2
\* length of the cycle of the process-wide random generator's position
RngPeriod == 4

\* fixed-point representation of the literal 1 in "1 + rate"
One == 1000

\* ------------------------------------------------------------------ inputs
InitialAmounts == {-1000, 1000}
MonthlyContributions == {-50, 0, 50}
RiskAppetites == {0, 1, 4, 8, 9}
Years == {-1, 0, 1}
\* values of the standard normal variate behind one draw
Variates == {-1, 1}

VARIABLES
    pc,                     \* position of the current call
    initial_amount, monthly_contribution, risk_appetite, years,   \* arguments
    params,                 \* the resolved risk profile
    monthly_return, monthly_volatility,     \* the monthly parameters
    simulations,            \* [trajectory][month] -> portfolio value
    cumulative_investment,  \* [trajectory][month] -> contributions so far
    i, j,                   \* the loop variables of the sequential simulation
    cursor,                 \* next month of each trajectory (interleaved run)
    draws,                  \* [trajectory][month] -> the draws taken for it
    results,                \* the returned table, month -> record
    error,                  \* the exception that ended the call
    rng_pos                 \* position of numpy's global random generator

vars == <<pc, initial_amount, monthly_contribution, risk_appetite, years,
          params, monthly_return, monthly_volatility, simulations, cumulative_investment, i, j, cursor, draws,
          results, error, rng_pos>>

\* a local that is not bound yet
Unset == [x \in {} |-> 0]
NoParams == [mean_return |-> 0, volatility |-> 0]
NoError == "none"

\* ------------------------------------------------------ risk-profile table
risk_parameters ==
    [level \in 1..8 |->
        CASE level = 1 -> [mean_return |-> 40,  volatility |-> 50]
          [] level = 2 -> [mean_return |-> 50,  volatility |-> 70]
          [] level = 3 -> [mean_return |-> 60,  volatility |-> 90]
          [] level = 4 -> [mean_return |-> 70,  volatility |-> 110]
          [] level = 5 -> [mean_return |-> 80,  volatility |-> 140]
          [] level = 6 -> [mean_return |-> 100, volatility |-> 170]
          [] level = 7 -> [mean_return |-> 120, volatility |-> 200]
          [] level = 8 -> [mean_return |-> 140, volatility |-> 250]]

\* the lookup risk_parameters[risk_appetite]: a KeyError for a missing key
LookupClamped(level) ==
    IF level < 1 THEN [found |-> TRUE, value |-> risk_parameters[1]]
    ELSE IF level > 8 THEN [found |-> TRUE, value |-> risk_parameters[8]]
    ELSE [found |-> TRUE, value |-> risk_parameters[level]]

Lookup(level) ==
    IF level \in DOMAIN risk_parameters
    THEN [found |-> TRUE, value |-> risk_parameters[level]]
    ELSE [found |-> FALSE, value |-> NoParams]

\* ------------------------------------------------------- derived parameters
months == years * MonthsPerYear

RECURSIVE Power(_, _)
Power(b, e) == IF e = 0 THEN 1 ELSE b * Power(b, e - 1)

\* (1 + annual_return) ** (1/12) - 1, rounded down to a thousandth
CompoundMonthly(annual_return) ==
    CHOOSE x \in 0..annual_return :
        /\ Power(One + x, MonthsPerYear)
              <= Power(One, MonthsPerYear - 1) * (One + annual_return)
        /\ Power(One + x + 1, MonthsPerYear)
              > Power(One, MonthsPerYear - 1) * (One + annual_return)

\* annual_volatility / np.sqrt(12), rounded down to a thousandth
ScaleVolatility(annual_volatility) ==
    CHOOSE x \in 0..annual_volatility :
        /\ x * x * MonthsPerYear <= annual_volatility * annual_volatility
        /\ (x + 1) * (x + 1) * MonthsPerYear > annual_volatility * annual_volatility

\* np.random.normal(loc, scale): loc + scale * (standard normal variate)
normal(loc, scale, z) == loc + scale * z

Trajectories == 0..(num_simulations - 1)

\* np.empty((rows, columns)): the cells hold whatever the memory held
uninitialised(rows, columns) ==
    [r \in 0..(rows - 1) |-> [c \in 0..(columns - 1) |-> 1]]

\* np.zeros((rows, columns))
zeros(rows, columns) == [r \in 0..(rows - 1) |-> [c \in 0..(columns - 1) |-> 0]]

\* ---------------------------------------------------------- the loop body
\* amount * rate, the principal forgotten
GrowWithoutPrincipal(amount, rate) == (amount * rate) \div One

\* amount * (1 + rate)
Grow(amount, rate) == (amount * (One + rate)) \div One

\* line 40, with the contribution added before the growth is applied
NextValuePreGrowth(sims, t, m, random_return, monthly_investment) ==
    Grow(sims[t][m - 1] + monthly_investment, random_return)

\* line 40, reading the previous value of the neighbouring trajectory
NextValueNeighbour(sims, t, m, random_return, monthly_investment) ==
    Grow(sims[(t + num_simulations - 1) % num_simulations][m - 1], random_return)
        + monthly_investment

\* line 40: simulations[i, j-1] * (1 + random_return) + monthly_investment
NextValue(sims, t, m, random_return, monthly_investment) ==
    Grow(sims[t][m - 1], random_return) + monthly_investment

\* line 41, accumulating the grown contribution
NextCumulativeGrown(cum, t, m, random_return, monthly_investment) ==
    cum[t][m - 1] + Grow(monthly_investment, random_return)

\* line 41: cumulative_investment[i, j-1] + monthly_investment
NextCumulative(cum, t, m, random_return, monthly_investment) ==
    cum[t][m - 1] + monthly_investment

\* lines 33-34 with the first column left at zero
FirstValueZero(amount) == 0

\* lines 33-34: the value written to column 0 of a trajectory
FirstValue(amount) == amount

\* -------------------------------------------------------------- aggregation
RECURSIVE Insert(_, _)
Insert(s, x) ==
    IF s = <<>> THEN <<x>>
    ELSE IF x <= Head(s) THEN <<x>> \o s
    ELSE <<Head(s)>> \o Insert(Tail(s), x)

\* np.sort of one column, ascending
RECURSIVE sort(_)
sort(s) == IF s = <<>> THEN <<>> ELSE Insert(sort(Tail(s)), Head(s))

\* column m of the ensemble, as np.percentile(..., axis=0) sees it
Column(sims, m) == [k \in 1..num_simulations |-> sims[k - 1][m]]

\* np.percentile without the sort of the column
percentileUnsorted(a, q) ==
    LET n == Len(a)
        lo == (q * (n - 1)) \div 100
        t == (q * (n - 1)) % 100
        hi == IF lo + 1 < n THEN lo + 1 ELSE lo
    IN 100 * a[lo + 1] + (a[hi + 1] - a[lo + 1]) * t

\* np.percentile(a, q), linear interpolation, in hundredths:
\* virtual index q/100*(n-1), interpolated between the adjacent order statistics
percentile(a, q) ==
    LET sorted == sort(a)
        n == Len(sorted)
        lo == (q * (n - 1)) \div 100
        t == (q * (n - 1)) % 100
        hi == IF lo + 1 < n THEN lo + 1 ELSE lo
    IN 100 * sorted[lo + 1] + (sorted[hi + 1] - sorted[lo + 1]) * t

RECURSIVE Gcd(_, _)
Gcd(a, b) == IF b = 0 THEN a ELSE Gcd(b, a % b)

\* months_array / 12: the quotient as a fraction in lowest terms
YearOf(month) ==
    LET g == Gcd(month, MonthsPerYear)
    IN <<month \div g, MonthsPerYear \div g>>

\* np.arange(months + 1) one element short
months_arrayShort(n) == 0..(n - 1)

\* np.arange(months + 1)
months_array(n) == 0..n

\* lines 43-55: the result table built from the ensemble
MakeResults(sims, cum, n) ==
    [m \in months_array(n) |->
        [Month |-> m,
         Year |-> YearOf(m),
         Median |-> percentile(Column(sims, m), 50),
         Lower |-> percentile(Column(sims, m), 10),
         Upper |-> percentile(Column(sims, m), 90),
         Cumulative |-> cum[0][m]]]

\* lines 32-41 run in the program's order (trajectory by trajectory, month by
\* month) over the cells below `upto`, with the draws `taken` for each cell
RECURSIVE RunSequential(_, _, _, _, _)
RunSequential(sims, t, m, upto, taken) ==
    IF t = num_simulations THEN sims
    ELSE IF m >= upto[t] THEN RunSequential(sims, t + 1, 0, upto, taken)
    ELSE IF m = 0
         THEN RunSequential([sims EXCEPT ![t][0] = FirstValue(initial_amount)],
                            t, 1, upto, taken)
         ELSE RunSequential(
                  [sims EXCEPT ![t][m] =
                      NextValue(sims, t, m, taken[t][m][1], monthly_contribution)],
                  t, m + 1, upto, taken)

\* ------------------------------------------------------------ the state machine
\* no call in progress: no frame, only the process-wide generator
NoFrame ==
    /\ initial_amount' = 0
    /\ monthly_contribution' = 0
    /\ risk_appetite' = 0
    /\ years' = 0
    /\ params' = NoParams
    /\ monthly_return' = 0
    /\ monthly_volatility' = 0
    /\ simulations' = Unset
    /\ cumulative_investment' = Unset
    /\ i' = 0
    /\ j' = 0
    /\ cursor' = Unset
    /\ draws' = Unset
    /\ results' = Unset
    /\ error' = NoError

Init ==
    /\ pc = "idle"
    /\ initial_amount = 0
    /\ monthly_contribution = 0
    /\ risk_appetite = 0
    /\ years = 0
    /\ params = NoParams
    /\ monthly_return = 0
    /\ monthly_volatility = 0
    /\ simulations = Unset
    /\ cumulative_investment = Unset
    /\ i = 0
    /\ j = 0
    /\ cursor = Unset
    /\ draws = Unset
    /\ results = Unset
    /\ error = NoError
    /\ rng_pos = 0

\* line 6: the function is entered with its four arguments
CallWith(amounts, contributions, levels, horizons) ==
    /\ pc = "idle"
    /\ pc' = "call"
    /\ initial_amount' \in amounts
    /\ monthly_contribution' \in contributions
    /\ risk_appetite' \in levels
    /\ years' \in horizons
    /\ UNCHANGED <<params, monthly_return, monthly_volatility, simulations,
                   cumulative_investment, i, j, cursor, draws, results, error,
                   rng_pos>>

Call == CallWith(InitialAmounts, MonthlyContributions, RiskAppetites, Years)

\* lines 7-18: build the table and resolve the risk level
Resolve ==
    /\ pc = "call"
    /\ LET found == Lookup(risk_appetite)
       IN IF found.found
          THEN /\ params' = found.value
               /\ pc' = "alloc"
               /\ error' = error
          ELSE /\ params' = params
               /\ pc' = "raised"
               /\ error' = "KeyError"
    /\ UNCHANGED <<initial_amount, monthly_contribution, risk_appetite, years,
                   monthly_return, monthly_volatility, simulations,
                   cumulative_investment, i, j, cursor, draws, results, rng_pos>>

\* lines 20-30: the monthly parameters and the two arrays; np.zeros raises
\* ValueError for a negative dimension
Allocate ==
    /\ pc = "alloc"
    /\ monthly_return' = CompoundMonthly(params.mean_return)
    /\ monthly_volatility' = ScaleVolatility(params.volatility)
    /\ IF months + 1 < 0
       THEN /\ pc' = "raised"
            /\ error' = "ValueError"
            /\ UNCHANGED <<simulations, cumulative_investment, cursor, draws>>
       ELSE /\ pc' = "loop"
            /\ error' = error
            /\ simulations' = zeros(num_simulations, months + 1)
            /\ cumulative_investment' = zeros(num_simulations, months + 1)
            /\ cursor' = [t \in Trajectories |-> 0]
            /\ draws' = [t \in Trajectories |-> [m \in 1..months |-> <<>>]]
    /\ i' = 0
    /\ j' = 0
    /\ UNCHANGED <<initial_amount, monthly_contribution, risk_appetite, years,
                   params, results, rng_pos>>

\* lines 33-34 for trajectory t
StartTrajectory(t) ==
    /\ simulations' = [simulations EXCEPT ![t][0] = FirstValue(initial_amount)]
    /\ cumulative_investment' =
           [cumulative_investment EXCEPT ![t][0] = FirstValue(initial_amount)]

\* lines 37-41 for trajectory t and month m, the variate of the draw being z
MonthBody(t, m, z) ==
    LET monthly_investment == monthly_contribution
        random_return == normal(monthly_return, monthly_volatility, z)
    IN /\ simulations' =
              [simulations EXCEPT ![t][m] =
                  NextValue(simulations, t, m, random_return, monthly_investment)]
       /\ cumulative_investment' =
              [cumulative_investment EXCEPT ![t][m] =
                  NextCumulative(cumulative_investment, t, m, random_return,
                                 monthly_investment)]
       /\ draws' = [draws EXCEPT ![t][m] = Append(@, random_return)]
       /\ rng_pos' = (rng_pos + 1) % RngPeriod

\* line 32 entering the body of the outer loop, lines 33-34
BeginTrajectory ==
    /\ pc = "loop"
    /\ i < num_simulations
    /\ j = 0
    /\ StartTrajectory(i)
    /\ j' = 1
    /\ UNCHANGED <<pc, initial_amount, monthly_contribution, risk_appetite, years,
                   params, monthly_return, monthly_volatility, i, cursor, draws, results, error, rng_pos>>

\* one iteration of the inner loop, lines 36-41
Month ==
    /\ pc = "loop"
    /\ i < num_simulations
    /\ j >= 1
    /\ j <= months
    /\ \E z \in Variates : MonthBody(i, j, z)
    /\ j' = j + 1
    /\ UNCHANGED <<pc, initial_amount, monthly_contribution, risk_appetite, years,
                   params, monthly_return, monthly_volatility, i, cursor, results, error>>

\* the inner loop is exhausted: next iteration of the outer loop
EndTrajectory ==
    /\ pc = "loop"
    /\ i < num_simulations
    /\ j = months + 1
    /\ i' = i + 1
    /\ j' = 0
    /\ UNCHANGED <<pc, initial_amount, monthly_contribution, risk_appetite, years,
                   params, monthly_return, monthly_volatility, simulations, cumulative_investment, cursor, draws,
                   results, error, rng_pos>>

\* lines 43-57: percentiles, the table, return
Aggregate ==
    /\ pc = "loop"
    /\ i = num_simulations
    /\ results' = MakeResults(simulations, cumulative_investment, months)
    /\ pc' = "returned"
    /\ UNCHANGED <<initial_amount, monthly_contribution, risk_appetite, years,
                   params, monthly_return, monthly_volatility, simulations, cumulative_investment, i, j, cursor,
                   draws, error, rng_pos>>

\* the call is over: the frame is discarded, the process-wide generator stays
Discard ==
    /\ pc \in {"returned", "raised"}
    /\ pc' = "idle"
    /\ NoFrame
    /\ UNCHANGED rng_pos

Next ==
    \/ Call
    \/ Resolve
    \/ Allocate
    \/ BeginTrajectory
    \/ Month
    \/ EndTrajectory
    \/ Aggregate
    \/ Discard

Spec == Init /\ [][Next]_vars

\* ---------------------------------------------- the trajectories interleaved
\* The same loop body, the trajectories advanced in any order: trajectory t is
\* at month cursor[t], each trajectory's months still in increasing order.
ParBegin ==
    /\ pc = "loop"
    /\ \E t \in Trajectories :
          /\ cursor[t] = 0
          /\ StartTrajectory(t)
          /\ cursor' = [cursor EXCEPT ![t] = 1]
    /\ UNCHANGED <<pc, initial_amount, monthly_contribution, risk_appetite, years,
                   params, monthly_return, monthly_volatility, i, j, draws, results, error, rng_pos>>

ParMonth ==
    /\ pc = "loop"
    /\ \E t \in Trajectories :
          /\ cursor[t] >= 1
          /\ cursor[t] <= months
          /\ \E z \in Variates : MonthBody(t, cursor[t], z)
          /\ cursor' = [cursor EXCEPT ![t] = @ + 1]
    /\ UNCHANGED <<pc, initial_amount, monthly_contribution, risk_appetite, years,
                   params, monthly_return, monthly_volatility, i, j, results, error>>

ParAggregate ==
    /\ pc = "loop"
    /\ \A t \in Trajectories : cursor[t] = months + 1
    /\ results' = MakeResults(simulations, cumulative_investment, months)
    /\ pc' = "returned"
    /\ UNCHANGED <<initial_amount, monthly_contribution, risk_appetite, years,
                   params, monthly_return, monthly_volatility, simulations, cumulative_investment, i, j, cursor,
                   draws, error, rng_pos>>

CallPar == CallWith({1000}, MonthlyContributions, {0, 4, 8}, Years)

NextPar ==
    \/ CallPar
    \/ Resolve
    \/ Allocate
    \/ ParBegin
    \/ ParMonth
    \/ ParAggregate

SpecPar == Init /\ [][NextPar]_vars

\* ------------------------------------------------------------------ claims
Returned == pc = "returned"
Resolved == pc \notin {"idle", "call"}
HorizonMonths == years * MonthsPerYear

\* C1: in every returned table and at every month, the 10th percentile is at
\* most the median and the median at most the 90th percentile.
C1_PercentileOrder ==
    Returned =>
        \A m \in DOMAIN results :
            /\ results[m].Lower <= results[m].Median
            /\ results[m].Median <= results[m].Upper

\* a table with a month where the three differ and the column was not in order
C1_Witness ==
    /\ Returned
    /\ \E m \in DOMAIN results :
          /\ results[m].Lower < results[m].Median
          /\ results[m].Median < results[m].Upper
          /\ simulations[0][m] > simulations[1][m]

\* C2: a returned table has horizon_years*MonthsPerYear + 1 records, the months
\* are 0, 1, ..., horizon_months in order, and year = month / MonthsPerYear.
C2_TableShape ==
    Returned =>
        /\ DOMAIN results = 0..HorizonMonths
        /\ Cardinality(DOMAIN results) = HorizonMonths + 1
        /\ \A m \in DOMAIN results :
              /\ results[m].Month = m
              /\ results[m].Year[2] > 0
              /\ results[m].Year[1] * MonthsPerYear = m * results[m].Year[2]

C2_Witness ==
    /\ Returned
    /\ years = 1
    /\ results[HorizonMonths].Month = MonthsPerYear
    /\ results[1].Year = <<1, MonthsPerYear>>

\* C3: the cumulative contribution at month m is initial_amount +
\* m * monthly_contribution in every trajectory and in the returned column.
C3_CumulativeDeterministic ==
    Returned =>
        \A m \in 0..HorizonMonths :
            /\ \A t \in Trajectories :
                  cumulative_investment[t][m]
                      = initial_amount + m * monthly_contribution
            /\ results[m].Cumulative = initial_amount + m * monthly_contribution
            /\ monthly_contribution = 0 => results[m].Cumulative = initial_amount

\* the trajectories drew differently, the contribution is not zero
C3_Witness ==
    /\ Returned
    /\ years = 1
    /\ monthly_contribution # 0
    /\ draws[0] # draws[1]
    /\ simulations[0] # simulations[1]

\* C4: a risk level outside 1..8 ends the call with the lookup's error, with no
\* profile resolved, no array allocated, no draw taken and no table.
C4_InvalidRiskLevel ==
    (Resolved /\ risk_appetite \notin 1..8) =>
        /\ pc = "raised"
        /\ error = "KeyError"
        /\ params = NoParams
        /\ simulations = Unset
        /\ cumulative_investment = Unset
        /\ draws = Unset
        /\ results = Unset

C4_Witness ==
    /\ pc = "raised"
    /\ risk_appetite = 9
    /\ error = "KeyError"

\* C5: a call with a non-positive horizon, a negative initial amount or a
\* negative contribution fails before the simulation begins, with no table.
C5_InvalidParameterRejected ==
    (/\ pc \notin {"idle", "call", "alloc"}
     /\ \/ years <= 0
        \/ initial_amount < 0
        \/ monthly_contribution < 0)
    => (pc = "raised" /\ simulations = Unset /\ results = Unset)

\* C6: the first record of a returned table has month 0, year 0 and all four
\* amounts equal to initial_amount.
C6_FirstRecord ==
    Returned =>
        /\ results[0].Month = 0
        /\ results[0].Year = <<0, 1>>
        /\ results[0].Median = 100 * initial_amount
        /\ results[0].Lower = 100 * initial_amount
        /\ results[0].Upper = 100 * initial_amount
        /\ results[0].Cumulative = initial_amount

\* a table whose later months moved away from the initial amount
C6_Witness ==
    /\ Returned
    /\ years = 1
    /\ monthly_contribution # 0
    /\ results[1].Median # 100 * initial_amount
    /\ results[1].Lower # results[1].Upper

\* the deterministic compound growth v[m] at the monthly return r
RECURSIVE CompoundValue(_, _)
CompoundValue(m, r) ==
    IF m = 0 THEN initial_amount
    ELSE (CompoundValue(m - 1, r) * (One + r)) \div One + monthly_contribution

AllDrawsEqual(r) ==
    \A t \in Trajectories : \A m \in 1..HorizonMonths : draws[t][m] = <<r>>

\* C7: when every draw of the call is the same return r, the median and both
\* bounds are v[m] at every month, v[0] = initial_amount and
\* v[m] = v[m-1]*(1 + r) + monthly_contribution.
C7_NoSpreadDeterministic ==
    Returned =>
        \A z \in Variates :
            LET r == monthly_return + monthly_volatility * z
            IN AllDrawsEqual(r) =>
                   \A m \in 0..HorizonMonths :
                       /\ results[m].Median = 100 * CompoundValue(m, r)
                       /\ results[m].Lower = 100 * CompoundValue(m, r)
                       /\ results[m].Upper = 100 * CompoundValue(m, r)

C7_Witness ==
    /\ Returned
    /\ years = 1
    /\ monthly_contribution # 0
    /\ \E z \in Variates : AllDrawsEqual(monthly_return + monthly_volatility * z)
    /\ results[HorizonMonths].Median # results[0].Median

C9_PostGrowthContribution ==
    Returned =>
        \A t \in Trajectories : \A m \in 1..HorizonMonths :
            /\ Len(draws[t][m]) = 1
            /\ simulations[t][m] =
                  (simulations[t][m - 1] * (One + draws[t][m][1])) \div One
                      + monthly_contribution

C9_Witness ==
    /\ Returned
    /\ years = 1
    /\ monthly_contribution # 0
    /\ \E t \in Trajectories :
          /\ draws[t][1] # draws[t][2]
          /\ simulations[t][2] # simulations[t][1] + monthly_contribution

\* C10: with the trajectories advanced in any interleaving, the ensemble is,
\* cell for cell, the one the sequential loops compute from the same draws,
\* and so is the returned table.
C10_OrderIndependent ==
    (pc \in {"loop", "returned"}) =>
        LET sequential ==
                RunSequential(zeros(num_simulations, HorizonMonths + 1), 0, 0,
                              cursor, draws)
        IN /\ simulations = sequential
           /\ Returned =>
                 results = MakeResults(sequential, cumulative_investment,
                                       HorizonMonths)

\* the last trajectory is complete before the first one has started
C10_Witness ==
    /\ pc = "loop"
    /\ years = 1
    /\ cursor[0] = 0
    /\ cursor[num_simulations - 1] = HorizonMonths + 1
    /\ simulations[num_simulations - 1][HorizonMonths] # 0

=============================================================================
